---------------------------- MODULE Spec2Model ----------------------------
(***************************************************************************)
(* A model of splatt-complete (src/src/cmds/cmd_completion.c): the option  *)
(* parser, the driver splatt_tc_cmd, the two-pass distributed load of the  *)
(* validation tensor, and the parts of the completion engine the driver    *)
(* calls (training loop, convergence test, evaluator, SGD work sharing).   *)
(* The engine's code (completion.c, sgd.c) is not part of src/; the        *)
(* definitions that stand for it follow spec.md and are marked so.         *)
(*                                                                         *)
(* Scores are validation RMSE values in units of 1e-4 (so the default      *)
(* tolerance 1e-4 is 1).  Factor values are finite and the validation      *)
(* tensor is not globally empty (spec.md, sections 3 and 8), so scores are *)
(* finite naturals.                                                        *)
(***************************************************************************)
EXTENDS Integers, Sequences, FiniteSets, TLC

VARIABLES
  pc,        \* position of the driver splatt_tc_cmd
  args,      \* tc_cmd_args
  mpi,       \* TRUE: built with SPLATT_USE_MPI
  status,    \* process exit status
  ws,        \* tc_ws (the optimization workspace)
  model,     \* the live tc_model: address of its factor storage
  heap,      \* factor storage: address -> contents, or Freed
  e,         \* epoch counter of the training loop
  seconds,   \* elapsed wall clock of the training loop
  stop,      \* why the training loop stopped
  gvnnz,     \* splatt_tc_cmd's local global_validate_nnz
  rmse,      \* the validation score the convergence test last computed
  out,       \* what the run printed and wrote: report, files, algorithm run
  ld,        \* state of the two-pass load of the validation file
  ev,        \* state of a distributed evaluation
  sg         \* state of one SGD epoch's worker threads

vars == <<pc, args, mpi, status, ws, model, heap, e, seconds, stop, gvnnz,
          rmse, out, ld, ev, sg>>

-----------------------------------------------------------------------------
(* Bounds of the model *)

\* largest validation score (in units of 1e-4) an evaluation returns
MaxScore == 2
\* the model's clock stops counting at this many seconds
MaxClock == 2
\* largest global validation nnz the load reports
MaxNnz == 2

-----------------------------------------------------------------------------
(* Program constants *)

\* "maximum iterations/epochs (default: 500)"
DefaultMaxIts == 500
\* "maximum number of seconds, <= 0 to disable (default: 1000)"
DefaultMaxSeconds == 1000
\* "(default: 1e-4)", in units of 1e-4
DefaultTolerance == 1
\* "converge if RMSE-vl has not improved by TOLERANCE in 20 epochs"
MaxBadEpochs == 20
\* at most three positional file names: TRAIN, VALIDATE, TEST
MaxFiles == 3

NULL == 0
\* an uninitialised idx_t field, before any value is stored in it
Unset == 0 - 1
\* the worst possible score (best_rmse before any evaluation)
Inf == MaxScore + 100
Freed == 0 - 1

-----------------------------------------------------------------------------
(* ARG PARSING *)

\* the table maps[]; its last row is the { NULL, SPLATT_TC_NALGS } sentinel
maps == << [name |-> "gd",    which |-> "SPLATT_TC_GD"],
           [name |-> "lbfgs", which |-> "SPLATT_TC_LBFGS"],
           [name |-> "cg",    which |-> "SPLATT_TC_NLCG"],
           [name |-> "nlcg",  which |-> "SPLATT_TC_NLCG"],
           [name |-> "sgd",   which |-> "SPLATT_TC_SGD"],
           [name |-> "als",   which |-> "SPLATT_TC_ALS"],
           [name |-> "ccd",   which |-> "SPLATT_TC_CCD"],
           [name |-> "",      which |-> "SPLATT_TC_NALGS"] >>

RECURSIVE tc_alg_scan(_, _)
tc_alg_scan(arg, ptr) ==
  IF maps[ptr].name = "" THEN "SPLATT_TC_NALGS"
  ELSE IF arg = maps[ptr].name THEN maps[ptr].which
  ELSE tc_alg_scan(arg, ptr + 1)

parse_tc_alg(arg) == tc_alg_scan(arg, 1)

\* the file kinds a positional argument can name
FileKinds == {"good", "missing", "manymodes"}

\* default_tc_opts with the output switched on
default_tc_opts_write ==
  [ ifnames       |-> << >>,
    which_alg     |-> "SPLATT_TC_SGD",
    write         |-> TRUE,
    max_its       |-> 0,
    set_timeout   |-> FALSE,
    max_seconds   |-> 0,
    set_tolerance |-> FALSE,
    tolerance     |-> 0,
    hogwild       |-> FALSE ]

default_tc_opts ==
  [ ifnames       |-> << >>,
    which_alg     |-> "SPLATT_TC_SGD",
    write         |-> FALSE,
    max_its       |-> 0,
    set_timeout   |-> FALSE,
    max_seconds   |-> 0,
    set_tolerance |-> FALSE,
    tolerance     |-> 0,
    hogwild       |-> FALSE ]

\* argp_usage(state): print the usage message and exit
argp_usage ==
  /\ status' = "usage"
  /\ pc' = "exit"

\* the fields of args one call of parse_tc_opt stores, before any usage exit
parse_tc_store(key, arg) ==
  CASE key = "i"       -> [args EXCEPT !.max_its = arg]
    [] key = "a"       -> [args EXCEPT !.which_alg = parse_tc_alg(arg)]
    [] key = "nowrite" -> [args EXCEPT !.write = FALSE]
    [] key = "time"    -> [args EXCEPT !.max_seconds = arg, !.set_timeout = TRUE]
    [] key = "tol"     -> [args EXCEPT !.tolerance = arg, !.set_tolerance = TRUE]
    [] key = "hogwild" -> [args EXCEPT !.hogwild = TRUE]
    [] key = "ARG"     -> IF Len(args.ifnames) = MaxFiles THEN args
                          ELSE [args EXCEPT !.ifnames = Append(@, arg)]
    [] OTHER           -> args

\* whether this call of parse_tc_opt ends in argp_usage
parse_tc_usage(key, arg) ==
  \/ key = "a" /\ parse_tc_alg(arg) = "SPLATT_TC_NALGS"
  \/ key = "ARG" /\ Len(args.ifnames) = MaxFiles

parse_tc_opt(key, arg) ==
  /\ pc = "parse"
  /\ args' = parse_tc_store(key, arg)
  /\ IF parse_tc_usage(key, arg)
       THEN argp_usage
       ELSE UNCHANGED <<pc, status>>
  /\ UNCHANGED <<mpi, ws, model, heap, e, seconds, stop, gvnnz, rmse, out, ld, ev, sg>>

\* ARGP_KEY_END: both TRAIN and VALIDATE must have been given
parse_tc_end ==
  /\ pc = "parse"
  /\ IF Len(args.ifnames) < 2
       THEN argp_usage
       ELSE pc' = "read" /\ UNCHANGED status
  /\ UNCHANGED <<args, mpi, ws, model, heap, e, seconds, stop, gvnnz, rmse, out, ld, ev, sg>>


-----------------------------------------------------------------------------
(* SPLATT-COMPLETE: reading the tensors *)

\* Loader contract of tt_read / mpi_tt_read (io.c, not in src/): a populated
\* tensor, or NULL for a missing, unreadable or unsupported file
tt_read(kind) == IF kind = "good" THEN "tensor" ELSE "NULL"

\* What the call of tt_get_layer_dims and the check that follows it can end
\* in.  With more than MAX_NMODES modes the loops over m < nmodes store past
\* the caller's dims[MAX_NMODES] before nmodes is compared with MAX_NMODES:
\* the process either survives the stray stores and returns
\* SPLATT_ERROR_BADINPUT, or dies of them.
layer_dims_outcomes(kind) ==
  IF kind = "manymodes" THEN {"badinput", "crash"} ELSE {"running"}

\* lines 342-424 under SPLATT_USE_MPI
read_mpi(tk, vk) ==
  IF vk = "missing"
    THEN /\ status' = "badinput" /\ pc' = "exit" /\ UNCHANGED gvnnz
  ELSE IF vk = "manymodes"
    THEN /\ \E o \in layer_dims_outcomes(vk) : status' = o
         /\ pc' = "exit" /\ UNCHANGED gvnnz
  ELSE IF tt_read(tk) = "NULL"
    THEN /\ status' = "badinput" /\ pc' = "exit"
         /\ \E n \in 1..MaxNnz : gvnnz' = n
  ELSE /\ \E n \in 1..MaxNnz : gvnnz' = n
       /\ pc' = "alloc" /\ UNCHANGED status

\* lines 418-424 without MPI
read_serial(tk, vk) ==
  /\ IF tt_read(tk) = "NULL" \/ tt_read(vk) = "NULL"
       THEN status' = "badinput" /\ pc' = "exit"
       ELSE pc' = "alloc" /\ UNCHANGED status
  /\ UNCHANGED gvnnz

read_tensors ==
  /\ pc = "read"
  /\ IF mpi THEN read_mpi(args.ifnames[1], args.ifnames[2])
            ELSE read_serial(args.ifnames[1], args.ifnames[2])
  /\ UNCHANGED <<args, mpi, ws, model, heap, e, seconds, stop, rmse, out, ld, ev, sg>>

-----------------------------------------------------------------------------
(* SPLATT-COMPLETE: model and workspace *)

\* number of separately allocated factor stores the heap can hold
HeapSize == 2
Addrs == 1..HeapSize

EmptyHeap == [a \in Addrs |-> Freed]

\* a store that is not in use
FreshAddr(h) == CHOOSE a \in Addrs : h[a] = Freed

\* tc_ws before tc_ws_alloc
NoWs ==
  [ max_its |-> 0, max_seconds |-> 0, tolerance |-> 0, hogwild |-> FALSE,
    best_rmse |-> Inf, best_epoch |-> 0, nbadepochs |-> 0,
    best_model |-> NULL, rinfo_set |-> FALSE, global_validate_nnz |-> Unset ]

\* tc_ws_alloc (completion.c, not in src/): the defaults the option table
\* documents, the best-model slot empty, the distributed fields not stored
tc_ws_alloc ==
  [ NoWs EXCEPT !.max_its = DefaultMaxIts,
                !.max_seconds = DefaultMaxSeconds,
                !.tolerance = DefaultTolerance ]

\* tc_ws_override with the check of the iteration budget forgotten: the
\* budget given with -i is never stored
tc_ws_override_no_its(w, a) ==
  [ w EXCEPT !.max_seconds = IF a.set_timeout THEN a.max_seconds ELSE @,
             !.tolerance   = IF a.set_tolerance THEN a.tolerance ELSE @,
             !.hogwild     = a.hogwild ]

\* tc_ws_override with hogwild switched on whatever the caller asked
tc_ws_override_hogwild(w, a) ==
  [ w EXCEPT !.max_its     = IF a.max_its # 0 THEN a.max_its ELSE @,
             !.max_seconds = IF a.set_timeout THEN a.max_seconds ELSE @,
             !.tolerance   = IF a.set_tolerance THEN a.tolerance ELSE @,
             !.hogwild     = TRUE ]

\* "check for non-default vals", lines 441-461
tc_ws_override(w, a) ==
  [ w EXCEPT !.max_its     = IF a.max_its # 0 THEN a.max_its ELSE @,
             !.max_seconds = IF a.set_timeout THEN a.max_seconds ELSE @,
             !.tolerance   = IF a.set_tolerance THEN a.tolerance ELSE @,
             !.hogwild     = a.hogwild ]

\* lines 436-461: tc_model_alloc, tc_ws_alloc, the overrides.  The live
\* model's contents are the number of epochs applied to it (0: the random
\* initial factors).
alloc_model_ws ==
  /\ pc = "alloc"
  /\ model' = FreshAddr(heap)
  /\ heap' = [heap EXCEPT ![FreshAddr(heap)] = 0]
  /\ ws' = tc_ws_override(tc_ws_alloc, args)
  /\ pc' = "dispatch"
  /\ UNCHANGED <<args, mpi, status, e, seconds, stop, gvnnz, rmse, out, ld, ev, sg>>

-----------------------------------------------------------------------------
(* SPLATT-COMPLETE: dispatch, lines 490-528 *)

TcAlgs == {"SPLATT_TC_GD", "SPLATT_TC_NLCG", "SPLATT_TC_LBFGS",
           "SPLATT_TC_SGD", "SPLATT_TC_CCD", "SPLATT_TC_ALS"}

\* the workspace a case of the switch hands to its solver: only the SGD case
\* stores the partition handle and the reduced validation nnz
dispatch_ws(w, alg) ==
  IF mpi /\ alg = "SPLATT_TC_SGD"
    THEN [w EXCEPT !.rinfo_set = TRUE, !.global_validate_nnz = gvnnz]
    ELSE w

\* dispatch with the call of the solver missing from the cases
dispatch_no_solver ==
  /\ pc = "dispatch"
  /\ out' = [out EXCEPT !.alg = args.which_alg]
  /\ pc' = "report"
  /\ UNCHANGED <<args, mpi, status, ws, model, heap, e, seconds, stop, gvnnz, rmse, ld, ev, sg>>

dispatch ==
  /\ pc = "dispatch"
  /\ IF args.which_alg \in TcAlgs
       THEN /\ ws' = dispatch_ws(ws, args.which_alg)
            /\ out' = [out EXCEPT !.alg = args.which_alg]
            /\ pc' = "train"
            /\ UNCHANGED status
       ELSE /\ status' = "badinput"
            /\ pc' = "exit"
            /\ UNCHANGED <<ws, out>>
  /\ UNCHANGED <<args, mpi, model, heap, e, seconds, stop, gvnnz, rmse, ld, ev, sg>>

-----------------------------------------------------------------------------
(* The training loop (sgd.c, completion.c; not in src/), spec.md 4.3 *)

\* clone(model) into the best slot: the slot's previous clone is released and
\* a freshly allocated store receives a copy of the live model's contents
clone_heap(h, w, m) ==
  LET h1 == IF w.best_model = NULL THEN h
            ELSE [h EXCEPT ![w.best_model] = Freed]
  IN  [h1 EXCEPT ![FreshAddr(h1)] = h[m]]

clone_addr(h, w, m) ==
  LET h1 == IF w.best_model = NULL THEN h
            ELSE [h EXCEPT ![w.best_model] = Freed]
  IN  FreshAddr(h1)

\* VALIDATING: strict improvement beyond tolerance
improves(w, score) == score < w.best_rmse - w.tolerance

\* tc_converge_ws with the stall counter left standing on an improvement
tc_converge_ws_no_reset(w, h, m, score, epoch) ==
  IF improves(w, score)
    THEN [w EXCEPT !.best_rmse = score, !.best_epoch = epoch,
                   !.best_model = clone_addr(h, w, m)]
    ELSE [w EXCEPT !.nbadepochs = @ + 1]

\* IMPROVED / STALLED
tc_converge_ws(w, h, m, score, epoch) ==
  IF improves(w, score)
    THEN [w EXCEPT !.best_rmse = score, !.best_epoch = epoch,
                   !.nbadepochs = 0, !.best_model = clone_addr(h, w, m)]
    ELSE [w EXCEPT !.nbadepochs = @ + 1]

tc_converge_heap(w, h, m, score) ==
  IF improves(w, score) THEN clone_heap(h, w, m) ELSE h

\* CONVERGED, TIMED_OUT, MAX_ITERS_REACHED, or "" to run another epoch
stop_reason(w, epoch, secs) ==
  IF w.nbadepochs = MaxBadEpochs THEN "converged"
  ELSE IF w.max_seconds > 0 /\ secs > w.max_seconds THEN "timed_out"
  ELSE IF w.max_its # 0 /\ epoch >= w.max_its THEN "max_iters"
  ELSE ""

\* INIT: best score worst possible, best epoch 0; the initial model is
\* evaluated as epoch 0 (best_model is null only while nothing was evaluated)
tc_train_init(score) ==
  /\ pc = "train"
  /\ e' = 0
  /\ seconds' = 0
  /\ LET w0 == [ws EXCEPT !.best_rmse = Inf, !.best_epoch = 0, !.nbadepochs = 0]
     IN  /\ ws' = tc_converge_ws(w0, heap, model, score, 0)
         /\ heap' = tc_converge_heap(w0, heap, model, score)
  /\ rmse' = score
  /\ pc' = "epoch"
  /\ UNCHANGED <<args, mpi, status, model, stop, gvnnz, out, ld, ev, sg>>

\* EPOCH_RUNNING: one pass over the training set updates the live model in
\* place; the wall clock advances; the last score is out of scope
tc_epoch(dt) ==
  /\ pc = "epoch"
  /\ e' = e + 1
  /\ heap' = [heap EXCEPT ![model] = e + 1]
  /\ seconds' = IF seconds + dt > MaxClock THEN MaxClock ELSE seconds + dt
  /\ rmse' = Unset
  /\ pc' = "validate"
  /\ UNCHANGED <<args, mpi, status, ws, model, stop, gvnnz, out, ld, ev, sg>>

\* VALIDATING, then the stop conditions
tc_validate(score) ==
  /\ pc = "validate"
  /\ ws' = tc_converge_ws(ws, heap, model, score, e)
  /\ heap' = tc_converge_heap(ws, heap, model, score)
  /\ stop' = stop_reason(ws', e, seconds)
  /\ rmse' = score
  /\ pc' = IF stop' = "" THEN "epoch" ELSE "report"
  /\ UNCHANGED <<args, mpi, status, model, e, seconds, gvnnz, out, ld, ev, sg>>

-----------------------------------------------------------------------------
(* SPLATT-COMPLETE: report, clean-up, test, output; lines 530-579 *)

\* a tc_model pointer the evaluator or the writer can follow
valid_model(h, m) == m # NULL /\ h[m] # Freed

\* the values a read of ws->global_validate_nnz can give: the stored value,
\* or anything when nothing was ever stored in the field
read_global_nnz(w) ==
  IF w.global_validate_nnz = Unset THEN 0..MaxNnz ELSE {w.global_validate_nnz}

\* lines 530-541
report ==
  /\ pc = "report"
  /\ IF valid_model(heap, ws.best_model)
       THEN /\ \E n \in (IF mpi THEN read_global_nnz(ws) ELSE {Unset}) :
                 out' = [out EXCEPT !.reported = TRUE, !.nnz = n,
                                    !.mae_model = heap[ws.best_model]]
            /\ pc' = "free"
            /\ UNCHANGED status
       ELSE /\ status' = "crash" /\ pc' = "exit" /\ UNCHANGED out
  /\ UNCHANGED <<args, mpi, ws, model, heap, e, seconds, stop, gvnnz, rmse, ld, ev, sg>>

\* free_train releasing the workspace's clone together with the live model
free_train_and_best ==
  /\ pc = "free"
  /\ heap' = [a \in Addrs |-> Freed]
  /\ pc' = "test"
  /\ UNCHANGED <<args, mpi, status, ws, model, e, seconds, stop, gvnnz, rmse, out, ld, ev, sg>>

\* lines 543-545: tt_free(validate); tt_free(train); tc_model_free(model)
free_train ==
  /\ pc = "free"
  /\ heap' = [heap EXCEPT ![model] = Freed]
  /\ pc' = "test"
  /\ UNCHANGED <<args, mpi, status, ws, model, e, seconds, stop, gvnnz, rmse, out, ld, ev, sg>>

\* lines 547-558: "test rmse on best model found"
test_eval ==
  /\ pc = "test"
  /\ IF Len(args.ifnames) < MaxFiles
       THEN pc' = "write" /\ UNCHANGED <<status, out>>
     ELSE IF tt_read(args.ifnames[MaxFiles]) = "NULL"
       THEN status' = "badinput" /\ pc' = "exit" /\ UNCHANGED out
     ELSE IF valid_model(heap, ws.best_model)
       THEN /\ out' = [out EXCEPT !.test_model = heap[ws.best_model]]
            /\ pc' = "write" /\ UNCHANGED status
     ELSE status' = "crash" /\ pc' = "exit" /\ UNCHANGED out
  /\ UNCHANGED <<args, mpi, ws, model, heap, e, seconds, stop, gvnnz, rmse, ld, ev, sg>>

\* lines 560-575: "write the best model"
write_model ==
  /\ pc = "write"
  /\ IF ~args.write
       THEN pc' = "wsfree" /\ UNCHANGED <<status, out>>
     ELSE IF valid_model(heap, ws.best_model)
       THEN /\ out' = [out EXCEPT !.files = {"mode1.mat", "mode2.mat"}]
            /\ pc' = "wsfree" /\ UNCHANGED status
     ELSE status' = "crash" /\ pc' = "exit" /\ UNCHANGED out
  /\ UNCHANGED <<args, mpi, ws, model, heap, e, seconds, stop, gvnnz, rmse, ld, ev, sg>>

\* lines 577-579: tc_ws_free(ws) releases the best-model clone; EXIT_SUCCESS
ws_free ==
  /\ pc = "wsfree"
  /\ heap' = IF ws.best_model = NULL THEN heap
             ELSE [heap EXCEPT ![ws.best_model] = Freed]
  /\ status' = "success"
  /\ pc' = "exit"
  /\ UNCHANGED <<args, mpi, ws, model, e, seconds, stop, gvnnz, rmse, out, ld, ev, sg>>


-----------------------------------------------------------------------------
(* The whole program *)

NoOut == [ alg |-> "", reported |-> FALSE, nnz |-> Unset, mae_model |-> Unset,
           test_model |-> Unset, files |-> {} ]

\* the scores an evaluation can return
Scores == 0..MaxScore

\* the command lines tried: option keys with their arguments
AlgArgs == {"gd", "lbfgs", "cg", "nlcg", "sgd", "als", "ccd", "bogus"}
Options ==
     {<<"i", n>> : n \in {0, 1}}
  \cup {<<"a", a>> : a \in AlgArgs}
  \cup {<<"nowrite", 0>>}
  \cup {<<"time", t>> : t \in {1}}
  \cup {<<"ARG", f>> : f \in FileKinds}

IdleLd == [phase |-> "idle"]
IdleEv == [phase |-> "idle"]
IdleSg == [phase |-> "idle"]

\* splatt_tc_cmd after default_tc_opts(&args), lines 315-316
Init ==
  /\ pc = "parse"
  /\ args = default_tc_opts
  /\ mpi \in BOOLEAN
  /\ status = "running"
  /\ ws = NoWs
  /\ model = NULL
  /\ heap = EmptyHeap
  /\ e = 0
  /\ seconds = 0
  /\ stop = ""
  /\ gvnnz = 0
  /\ rmse = Unset
  /\ out = NoOut
  /\ ld = IdleLd
  /\ ev = IdleEv
  /\ sg = IdleSg

\* the steps of splatt_tc_cmd from the tensors' load to its return
Run(S) ==
  \/ alloc_model_ws
  \/ dispatch
  \/ \E s \in S : tc_train_init(s)
  \/ \E dt \in {0, 1} : tc_epoch(dt)
  \/ \E s \in S : tc_validate(s)
  \/ report
  \/ free_train
  \/ test_eval
  \/ write_model
  \/ ws_free

Next ==
  \/ \E o \in Options : parse_tc_opt(o[1], o[2])
  \/ parse_tc_end
  \/ read_tensors
  \/ Run(1..MaxScore)

Spec == Init /\ [][Next]_vars


-----------------------------------------------------------------------------
(* Training runs: the program from the allocation of the model on, for the  *)
(* option values a command line can leave in args                           *)

TrainArgs ==
  { [default_tc_opts EXCEPT !.ifnames = <<"good", "good">>,
                            !.max_its = i,
                            !.set_timeout = t[1], !.max_seconds = t[2],
                            !.set_tolerance = l[1], !.tolerance = l[2]] :
      i \in {0, 2, MaxBadEpochs + 2},
      t \in {<<FALSE, 0>>, <<TRUE, 0>>, <<TRUE, 1>>},
      l \in {<<FALSE, 0>>, <<TRUE, 0>>, <<TRUE, 0 - 2>>} }

InitTrain ==
  /\ pc = "alloc"
  /\ args \in TrainArgs
  /\ mpi = FALSE
  /\ status = "running"
  /\ ws = NoWs
  /\ model = NULL
  /\ heap = EmptyHeap
  /\ e = 0
  /\ seconds = 0
  /\ stop = ""
  /\ gvnnz = 0
  /\ rmse = Unset
  /\ out = NoOut
  /\ ld = IdleLd
  /\ ev = IdleEv
  /\ sg = IdleSg

NextTrain == Run(Scores)

SpecTrain == InitTrain /\ [][NextTrain]_vars


\* the loop is sequential code: a run that can take a step takes one
SpecTrainFair == SpecTrain /\ WF_vars(NextTrain)

-----------------------------------------------------------------------------
(* The whole program under every key of tc_options (lines 38-54).  The keys *)
(* whose case stores into a field the driver's control flow never reads     *)
(* (rank, threads, verbosity, step, reg, seed, norand, folds) leave the     *)
(* modelled fields of args as they are.                                     *)

AllOptions ==
       Options
  \cup {<<"tol", 0>>, <<"hogwild", 0>>}
  \cup {<<k, 1>> : k \in {"r", "t", "v", "s", "reg", "seed", "norand", "folds"}}

NextWrite ==
  \/ \E o \in AllOptions : parse_tc_opt(o[1], o[2])
  \/ parse_tc_end
  \/ read_tensors
  \/ Run({1})

SpecWrite == Init /\ [][NextWrite]_vars

-----------------------------------------------------------------------------
(* The two-pass load of the validation file under SPLATT_USE_MPI:           *)
(* tt_get_layer_dims (lines 248-306) and lines 370-407 of splatt_tc_cmd.    *)
(* A file is its sequence of data lines; a line is the index tokens as      *)
(* strtoull reads them (0 for a token "0" or one that is no number), and    *)
(* its value is told apart by the line's number.  Every line has NModes     *)
(* index tokens and the file has at least one line.                         *)

\* most data lines in a file
MaxLines == 3
\* largest index token in a file
MaxIdx == 2
\* bits of the unsigned idx_t, cut down from 64
IdxBits == 8
IdxMod == 2 ^ IdxBits
\* modes of the tensors loaded
NModes == 2

\* idx_t ind = strtoull(ptr, &ptr, 10) - 1
file_index(tok) == (tok - 1) % IdxMod

\* out_of_layer with the layer's first row left out
out_of_layer_first(ind, start, end) == ind <= start \/ ind >= end

\* the test of lines 289 and 390
out_of_layer(ind, start, end) == ind < start \/ ind >= end

\* lines 292: outdims[m] = (ind + 1 > outdims[m]) ? ind + 1 : outdims[m]
max_dim(ind, d) == IF (ind + 1) % IdxMod > d THEN (ind + 1) % IdxMod ELSE d

Lines == [1..NModes -> 0..MaxIdx]
Files == UNION { [1..n -> Lines] : n \in 1..MaxLines }

\* an array of n slots nothing was stored in yet
NewArray(n) == [k \in 1..n |-> Unset]

\* a store into slot k of an array of the tensor; FALSE when past its end
in_bounds(a, k) == k \in DOMAIN a
store(a, k, v) == IF in_bounds(a, k) THEN [a EXCEPT ![k] = v] ELSE a

\* tt_get_layer_dims, the second loop: one data line (lines 282-298)
layer_dims_line ==
  /\ ld.phase = "pass1"
  /\ ld.pos <= Len(ld.file)
  /\ LET line == ld.file[ld.pos]
         skip == out_of_layer(file_index(line[1]), ld.start, ld.end)
     IN  ld' = [ld EXCEPT
                  !.outdims = [m \in 1..NModes |-> max_dim(file_index(line[m]), @[m])],
                  !.nnz = IF skip THEN @ ELSE @ + 1,
                  !.pos = @ + 1]
  /\ UNCHANGED <<pc, args, mpi, status, ws, model, heap, e, seconds, stop, gvnnz, rmse, out, ev, sg>>

\* tt_get_layer_dims, lines 299-305, then tt_alloc and the copy of dims
\* (lines 370-380)
layer_dims_end ==
  /\ ld.phase = "pass1"
  /\ ld.pos > Len(ld.file)
  /\ ld' = [ld EXCEPT
              !.phase = "pass2",
              !.dims = [ld.outdims EXCEPT ![1] = (ld.end - ld.start) % IdxMod],
              !.alloc = ld.nnz,
              !.ind = [m \in 1..NModes |-> NewArray(ld.nnz)],
              !.vals = NewArray(ld.nnz),
              !.nnz = 0,
              !.pos = 1]
  /\ UNCHANGED <<pc, args, mpi, status, ws, model, heap, e, seconds, stop, gvnnz, rmse, out, ev, sg>>

\* "fill in tensor data": one data line (lines 381-406); nnz counts from 0,
\* the arrays here from 1
load_line ==
  /\ ld.phase = "pass2"
  /\ ld.pos <= Len(ld.file)
  /\ LET line == ld.file[ld.pos]
         ind0 == file_index(line[1])
         skip == out_of_layer(ind0, ld.start, ld.end)
         k    == ld.nnz + 1
     IN  ld' = IF skip
                 THEN [ld EXCEPT !.pos = @ + 1]
                 ELSE [ld EXCEPT
                         !.ind = [m \in 1..NModes |->
                                    store(@[m], k,
                                          IF m = 1 THEN (ind0 - ld.start) % IdxMod
                                                   ELSE file_index(line[m]))],
                         !.vals = store(@, k, ld.pos),
                         !.overrun = @ \/ ~in_bounds(ld.vals, k),
                         !.nnz = @ + 1,
                         !.pos = @ + 1]
  /\ UNCHANGED <<pc, args, mpi, status, ws, model, heap, e, seconds, stop, gvnnz, rmse, out, ev, sg>>

\* end of file: lines 409-415
load_end ==
  /\ ld.phase = "pass2"
  /\ ld.pos > Len(ld.file)
  /\ ld' = [ld EXCEPT !.phase = "done"]
  /\ UNCHANGED <<pc, args, mpi, status, ws, model, heap, e, seconds, stop, gvnnz, rmse, out, ev, sg>>

\* the load about to call tt_get_layer_dims: the file open, the worker's
\* layer [start, end) set by the read of the training tensor
InitLoad ==
  /\ pc = "read"
  /\ args = [default_tc_opts EXCEPT !.ifnames = <<"good", "good">>]
  /\ mpi = TRUE
  /\ status = "running"
  /\ ws = NoWs
  /\ model = NULL
  /\ heap = EmptyHeap
  /\ e = 0
  /\ seconds = 0
  /\ stop = ""
  /\ gvnnz = 0
  /\ rmse = Unset
  /\ out = NoOut
  /\ \E f \in Files, st \in 0..MaxIdx, en \in 0..(MaxIdx + 1) :
       /\ st <= en
       /\ ld = [ phase |-> "pass1", file |-> f, start |-> st, end |-> en,
                 pos |-> 1, nnz |-> 0, outdims |-> [m \in 1..NModes |-> 0],
                 dims |-> [m \in 1..NModes |-> 0], alloc |-> 0,
                 ind |-> [m \in 1..NModes |-> << >>], vals |-> << >>,
                 overrun |-> FALSE ]
  /\ ev = IdleEv
  /\ sg = IdleSg

NextLoad ==
  \/ layer_dims_line
  \/ layer_dims_end
  \/ load_line
  \/ load_end

SpecLoad == InitLoad /\ [][NextLoad]_vars

-----------------------------------------------------------------------------
(* Distributed evaluation of the validation tensor.  Every worker loads the *)
(* entries of its layer (the filter of lines 389-392), the local counts are *)
(* summed (lines 411-412), and the evaluator (completion.c, not in src/;    *)
(* spec.md 4.4) sums the workers' error sums before it divides.  An entry   *)
(* is <<0-based mode-0 index, squared error under the replicated model>>.   *)

\* workers of the distributed run
NWorkers == 2
\* extent of mode 0 of the validation tensor
EvalDim == 2
\* most entries of the validation tensor
EvalEntries == 2
\* largest squared error of an entry
MaxErr == 2
\* fixed-point resolution of a score
ScoreScale == 100

Workers == 1..NWorkers

RECURSIVE SumOver(_, _)
SumOver(f, S) ==
  IF S = {} THEN 0
  ELSE LET x == CHOOSE y \in S : TRUE IN f[x] + SumOver(f, S \ {x})

\* the sum of the squared errors of a sequence of entries
SumErr(t) == SumOver([k \in 1..Len(t) |-> t[k][2]], 1..Len(t))

isqrt(x) == CHOOSE r \in 0..x : r * r <= x /\ (r + 1) * (r + 1) > x

\* sqrt(sum_sq_err / nnz), in units of 1/ScoreScale; Unset for 0/0
tc_rmse(sum, nnz) ==
  IF nnz = 0 THEN Unset ELSE isqrt((sum * ScoreScale * ScoreScale) \div nnz)

\* the entries a worker with layer [start, end) keeps
layer_entries(t, start, end) ==
  SelectSeq(t, LAMBDA x : ~out_of_layer(x[1], start, end))

worker_entries(w) == layer_entries(ev.tensor, ev.cut[w], ev.cut[w + 1])

\* a worker's load: validate->nnz is the count of its layer's entries
ev_load(w) ==
  /\ ev.phase = "load"
  /\ w \notin ev.loaded
  /\ ev' = [ev EXCEPT !.loaded = @ \cup {w},
                      !.lnnz[w] = Len(worker_entries(w))]
  /\ UNCHANGED <<pc, args, mpi, status, ws, model, heap, e, seconds, stop, gvnnz, rmse, out, ld, sg>>

\* MPI_Allreduce(MPI_IN_PLACE, &global_validate_nnz, ..., MPI_SUM, ...)
ev_allreduce_nnz ==
  /\ ev.phase = "load"
  /\ ev.loaded = Workers
  /\ ev' = [ev EXCEPT !.phase = "score", !.gnnz = SumOver(ev.lnnz, Workers)]
  /\ UNCHANGED <<pc, args, mpi, status, ws, model, heap, e, seconds, stop, gvnnz, rmse, out, ld, sg>>

\* the evaluator on one worker: the local sum of squared errors
ev_local_sum(w) ==
  /\ ev.phase = "score"
  /\ w \notin ev.scored
  /\ ev' = [ev EXCEPT !.scored = @ \cup {w},
                      !.lsum[w] = SumErr(worker_entries(w))]
  /\ UNCHANGED <<pc, args, mpi, status, ws, model, heap, e, seconds, stop, gvnnz, rmse, out, ld, sg>>

\* the global sum of the error sums, then the division by the global count
ev_finalize ==
  /\ ev.phase = "score"
  /\ ev.scored = Workers
  /\ ev' = [ev EXCEPT !.phase = "done",
                      !.gsum = SumOver(ev.lsum, Workers),
                      !.fault = (ev.gnnz = 0),
                      !.score = tc_rmse(SumOver(ev.lsum, Workers), ev.gnnz)]
  /\ UNCHANGED <<pc, args, mpi, status, ws, model, heap, e, seconds, stop, gvnnz, rmse, out, ld, sg>>

\* the splits of [0, EvalDim) into NWorkers contiguous layers, some possibly
\* empty: cut[w] is the start of worker w's layer, cut[w + 1] its end
Cuts ==
  { c \in [1..(NWorkers + 1) -> 0..EvalDim] :
      /\ c[1] = 0
      /\ c[NWorkers + 1] = EvalDim
      /\ \A w \in Workers : c[w] <= c[w + 1] }

Tensors ==
  UNION { [1..n -> (0..(EvalDim - 1)) \X (0..MaxErr)] : n \in 1..EvalEntries }

InitEval ==
  /\ pc = "validate"
  /\ args = [default_tc_opts EXCEPT !.ifnames = <<"good", "good">>]
  /\ mpi = TRUE
  /\ status = "running"
  /\ ws = NoWs
  /\ model = NULL
  /\ heap = EmptyHeap
  /\ e = 0
  /\ seconds = 0
  /\ stop = ""
  /\ gvnnz = 0
  /\ rmse = Unset
  /\ out = NoOut
  /\ ld = IdleLd
  /\ \E t \in Tensors, c \in Cuts :
       ev = [ phase |-> "load", tensor |-> t, cut |-> c,
              loaded |-> {}, lnnz |-> [w \in Workers |-> Unset], gnnz |-> Unset,
              scored |-> {}, lsum |-> [w \in Workers |-> Unset], gsum |-> Unset,
              score |-> Unset, fault |-> FALSE ]
  /\ sg = IdleSg

NextEval ==
  \/ \E w \in Workers : ev_load(w)
  \/ ev_allreduce_nnz
  \/ \E w \in Workers : ev_local_sum(w)
  \/ ev_finalize

SpecEval == InitEval /\ [][NextEval]_vars

-----------------------------------------------------------------------------
(* One SGD epoch on the worker threads (sgd.c, not in src/; spec.md 4.3 and *)
(* 5).  A training entry is its row in each mode.  With hogwild off the     *)
(* entries are shared out by the rows of one fixed mode, the first; with    *)
(* hogwild on by their position.  A thread takes its entries in order and   *)
(* updates the entry's factor row of each mode in turn, in place; a row     *)
(* update starts and, in a later step, ends.  The parallel region ends when *)
(* every thread has finished, and validation follows it.                    *)

\* worker threads
NThreads == 2
\* rows of each factor matrix
NRows == 2
\* most training entries
MaxTrain == 2

Threads == 0..(NThreads - 1)

\* positional sharing of hogwild: a rule that ignores the rows
owner_by_position(k, entry) == (k - 1) % NThreads

\* the thread that owns a mode-0 row: contiguous, disjoint row ranges
owner_by_row(k, entry) == (entry[1] * NThreads) \div NRows

\* the thread that processes entry number k
thread_of(hogwild, k, entry) ==
  IF hogwild THEN owner_by_position(k, entry) ELSE owner_by_row(k, entry)

\* the positions of the entries a thread processes, in order
RECURSIVE thread_queue(_, _, _, _)
thread_queue(hogwild, train, t, k) ==
  IF k > Len(train) THEN << >>
  ELSE IF thread_of(hogwild, k, train[k]) = t
    THEN <<k>> \o thread_queue(hogwild, train, t, k + 1)
    ELSE thread_queue(hogwild, train, t, k + 1)

\* the start of the epoch's parallel region
sgd_fork ==
  /\ sg.phase = "fork"
  /\ sg' = [sg EXCEPT
              !.phase = "parallel",
              !.queue = [t \in Threads |-> thread_queue(ws.hogwild, sg.train, t, 1)]]
  /\ UNCHANGED <<pc, args, mpi, status, ws, model, heap, e, seconds, stop, gvnnz, rmse, out, ld, ev>>

\* a thread starts to rewrite the factor row of the next mode of its entry
sgd_begin_update(t) ==
  /\ sg.phase = "parallel"
  /\ sg.queue[t] # << >>
  /\ sg.writing[t] = << >>
  /\ LET entry == sg.train[Head(sg.queue[t])]
     IN  sg' = [sg EXCEPT !.writing[t] = <<sg.mode[t], entry[sg.mode[t]]>>]
  /\ UNCHANGED <<pc, args, mpi, status, ws, model, heap, e, seconds, stop, gvnnz, rmse, out, ld, ev>>

\* the row update is complete; the thread goes on to the entry's next mode,
\* or to its next entry
sgd_end_update(t) ==
  /\ sg.phase = "parallel"
  /\ sg.writing[t] # << >>
  /\ sg' = [sg EXCEPT
              !.writing[t] = << >>,
              !.updates = @ + 1,
              !.mode[t] = IF @ = NModes THEN 1 ELSE @ + 1,
              !.queue[t] = IF sg.mode[t] = NModes THEN Tail(@) ELSE @]
  /\ UNCHANGED <<pc, args, mpi, status, ws, model, heap, e, seconds, stop, gvnnz, rmse, out, ld, ev>>

\* the end of the parallel region: every thread has finished its entries
sgd_join ==
  /\ sg.phase = "parallel"
  /\ \A t \in Threads : sg.queue[t] = << >> /\ sg.writing[t] = << >>
  /\ sg' = [sg EXCEPT !.phase = "validate"]
  /\ UNCHANGED <<pc, args, mpi, status, ws, model, heap, e, seconds, stop, gvnnz, rmse, out, ld, ev>>

TrainTensors ==
  UNION { [1..n -> [1..NModes -> 0..(NRows - 1)]] : n \in 1..MaxTrain }

\* an epoch about to start, the workspace set up from the caller's options
InitSGD ==
  /\ pc = "epoch"
  /\ \E h \in BOOLEAN :
       args = [default_tc_opts EXCEPT !.ifnames = <<"good", "good">>, !.hogwild = h]
  /\ mpi = FALSE
  /\ status = "running"
  /\ ws = tc_ws_override(tc_ws_alloc, args)
  /\ model = NULL
  /\ heap = EmptyHeap
  /\ e = 0
  /\ seconds = 0
  /\ stop = ""
  /\ gvnnz = 0
  /\ rmse = Unset
  /\ out = NoOut
  /\ ld = IdleLd
  /\ ev = IdleEv
  /\ \E tr \in TrainTensors :
       sg = [ phase |-> "fork", train |-> tr,
              queue |-> [t \in Threads |-> << >>],
              mode |-> [t \in Threads |-> 1],
              writing |-> [t \in Threads |-> << >>],
              updates |-> 0 ]

NextSGD ==
  \/ sgd_fork
  \/ \E t \in Threads : sgd_begin_update(t)
  \/ \E t \in Threads : sgd_end_update(t)
  \/ sgd_join

SpecSGD == InitSGD /\ [][NextSGD]_vars

-----------------------------------------------------------------------------
(* Claims about the training run *)

InLoop == pc \in {"epoch", "validate"}
AfterLoop == pc \in {"report", "free", "test", "write", "wsfree"}

\* C1: from one validation to the next best_rmse never increases; a score that
\* does not beat best_rmse by more than the tolerance (a tie included) leaves
\* best_rmse, best_epoch and best_model unchanged; best_epoch changes only in
\* a step in which best_rmse strictly decreases by more than the tolerance.
C1_BestScoreMonotone ==
  [][ pc = "validate" =>
        /\ ws'.best_rmse <= ws.best_rmse
        /\ (rmse' >= ws.best_rmse - ws.tolerance \/ rmse' = ws.best_rmse)
             => /\ ws'.best_rmse = ws.best_rmse
                /\ ws'.best_epoch = ws.best_epoch
                /\ ws'.best_model = ws.best_model
                /\ heap'[ws'.best_model] = heap[ws.best_model]
        /\ ws'.best_epoch # ws.best_epoch
             => /\ ws'.best_rmse < ws.best_rmse
                /\ ws'.best_rmse < ws.best_rmse - ws.tolerance ]_vars

\* C2: whatever budget, timeout and tolerance the caller gave or left out, the
\* iteration budget in force is nonzero (the one given, or the default 500),
\* the loop never runs more epochs than it, the timeout and tolerance left
\* out are the defaults 1000 and 1e-4, and the loop stops.
C2_BoundsInForce ==
  pc # "alloc" =>
    /\ ws.max_its # 0
    /\ e <= ws.max_its
    /\ ws.max_its = (IF args.max_its # 0 THEN args.max_its ELSE DefaultMaxIts)
    /\ ~args.set_timeout => ws.max_seconds = DefaultMaxSeconds
    /\ ~args.set_tolerance => ws.tolerance = DefaultTolerance
    /\ pc = "epoch" => e < ws.max_its

C2_Terminates == [] C2_BoundsInForce /\ <>(stop # "")

\* a run with no -i, stopped by the default budget after 500 epochs
C2_Witness ==
  /\ args.max_its = 0
  /\ stop = "max_iters"
  /\ e = DefaultMaxIts

\* C3: the stall counter is the number of validations since the last
\* improving one, the loop stops as CONVERGED exactly when it reaches 20, no
\* epoch runs after that, and the report is made on the best model.
C3_ConvergedAtTwentyStalls ==
  InLoop \/ AfterLoop =>
    /\ ws.nbadepochs <= MaxBadEpochs
    /\ ws.nbadepochs = (IF pc = "validate" THEN e - 1 ELSE e) - ws.best_epoch
    /\ stop = "converged" <=> ws.nbadepochs = MaxBadEpochs
    /\ ws.nbadepochs = MaxBadEpochs => ~InLoop
    /\ out.reported => out.mae_model = ws.best_epoch

\* converged after an improving epoch restarted the count, and reported
C3_Witness ==
  /\ stop = "converged"
  /\ ws.best_epoch > 0
  /\ e = ws.best_epoch + MaxBadEpochs
  /\ out.reported

\* C4: best_model is null, or a store of its own that holds the contents the
\* live model had at best_epoch: epochs that rewrite the live model, and the
\* release of the live model after training, leave it as it was.
C4_BestModelIndependent ==
  /\ pc \in {"alloc", "dispatch", "train"} => ws.best_model = NULL
  /\ InLoop \/ AfterLoop =>
       \/ ws.best_model = NULL
       \/ /\ ws.best_model # model
          /\ heap[ws.best_model] # Freed
          /\ heap[ws.best_model] = ws.best_epoch

\* the live model, rewritten after the snapshot, has been released
C4_Witness ==
  /\ pc = "test"
  /\ heap[model] = Freed
  /\ ws.best_model # NULL
  /\ heap[ws.best_model] = ws.best_epoch
  /\ 0 < ws.best_epoch /\ ws.best_epoch < e

\* C5: once the loop has stopped the driver finds a best model to evaluate
\* and never faults; when no epoch improved on the initial model, the best
\* model is the initial model and best_epoch is 0.
C5_BestModelAtStop ==
  /\ status # "crash"
  /\ AfterLoop =>
       /\ stop \in {"converged", "timed_out", "max_iters"}
       /\ valid_model(heap, ws.best_model)
       /\ ws.nbadepochs = e => ws.best_epoch = 0 /\ heap[ws.best_model] = 0

\* stopped by the iteration budget with no epoch better than the initial model
C5_Witness ==
  /\ pc = "test"
  /\ stop = "max_iters"
  /\ ws.nbadepochs = e
  /\ e = 2
  /\ out.mae_model = 0


-----------------------------------------------------------------------------
(* Claims about the whole program *)

\* C8: in a distributed build, whichever algorithm ran, the report's
\* validation nnz and the partition handle its MAE is computed with are the
\* ones of the global reduction: the workspace fields read were stored.
C8_ReportUsesReduction ==
  mpi /\ out.reported =>
    /\ ws.rinfo_set
    /\ ws.global_validate_nnz = gvnnz
    /\ out.nnz = gvnnz

\* the files named on the command line that the run has tried to read
FilesRead ==
  IF Len(args.ifnames) = MaxFiles /\ out.reported
    THEN {args.ifnames[1], args.ifnames[2], args.ifnames[MaxFiles]}
    ELSE {args.ifnames[1], args.ifnames[2]}

\* C9: a run given an unknown algorithm name ends in the usage exit with no
\* algorithm run; a run whose parse succeeded and that met an unusable
\* training, validation or test file (missing, unreadable, too many modes) or
\* the invalid algorithm selector ends with the bad-input code; neither has
\* written a factor-matrix file.
C9_BadInputRejected ==
  pc = "exit" =>
    /\ args.which_alg = "SPLATT_TC_NALGS"
         => status = "usage" /\ out.alg = "" /\ out.files = {}
    /\ (status # "usage" /\ FilesRead # {"good"})
         => status = "badinput" /\ out.files = {}


-----------------------------------------------------------------------------
(* Claims about the load of the validation file *)

\* the numbers of the lines whose 0-based mode-0 index lies in the layer
RECURSIVE LayerLines(_, _, _, _)
LayerLines(f, start, end, n) ==
  IF n > Len(f) THEN << >>
  ELSE IF start <= f[n][1] - 1 /\ f[n][1] - 1 < end
    THEN <<n>> \o LayerLines(f, start, end, n + 1)
    ELSE LayerLines(f, start, end, n + 1)

\* C10: after the load the tensor holds, in file order, exactly the lines
\* whose 0-based mode-0 index lies in [layer_start, layer_end), with the
\* mode-0 index rebased by layer_start and the other indices 0-based; pass 2
\* filled as many slots as pass 1 counted, none left out and none past the
\* allocation; dims[0] is the layer's extent; every index is within its dim.
C10_LayerLoad ==
  ld.phase = "done" =>
    LET kept == LayerLines(ld.file, ld.start, ld.end, 1)
    IN  /\ ld.alloc = Len(kept)
        /\ ld.nnz = ld.alloc
        /\ ~ld.overrun
        /\ ld.vals = kept
        /\ \A k \in 1..Len(kept) :
             /\ ld.ind[1][k] = ld.file[kept[k]][1] - 1 - ld.start
             /\ \A m \in 2..NModes : ld.ind[m][k] = ld.file[kept[k]][m] - 1
        /\ ld.dims[1] = ld.end - ld.start
        /\ \A m \in 1..NModes : \A k \in 1..ld.alloc :
             0 <= ld.ind[m][k] /\ ld.ind[m][k] < ld.dims[m]


-----------------------------------------------------------------------------
(* Claims about the distributed evaluation *)

\* C7: for every validation tensor and every split of mode 0 into contiguous
\* layers, the score from the summed error sums and the summed counts is the
\* score one worker computes on the whole tensor; a worker whose layer holds
\* no entry contributes a sum of 0 and a count of 0 and nothing faults.
C7_DistributedScore ==
  /\ ~ev.fault
  /\ \A w \in ev.loaded :
       worker_entries(w) = << >> => ev.lnnz[w] = 0
  /\ \A w \in ev.scored :
       worker_entries(w) = << >> => ev.lsum[w] = 0
  /\ ev.phase = "done" =>
       /\ ev.gnnz = Len(ev.tensor)
       /\ ev.gsum = SumErr(ev.tensor)
       /\ ev.score = tc_rmse(SumErr(ev.tensor), Len(ev.tensor))

\* a worker with an empty partition beside one with a nonzero error sum
C7_Witness ==
  /\ ev.phase = "done"
  /\ \E w \in Workers : ev.lnnz[w] = 0 /\ ev.lsum[w] = 0
  /\ \E w \in Workers : ev.lsum[w] > 0
  /\ ev.score > 0


-----------------------------------------------------------------------------
(* Claims about the SGD epoch *)

\* validation starts only after every row update of the epoch is complete
EpochComplete ==
  sg.phase = "validate" =>
    /\ sg.updates = Len(sg.train) * NModes
    /\ \A t \in Threads : sg.writing[t] = << >>

C11_WriteNeverEnabled ==
  /\ ~args.write
  /\ out.files = {}

\* a run given options (an epoch budget, a tolerance, hogwild) and a test
\* tensor, that reported, went past the write step and returned success
C11_Witness ==
  /\ status = "success"
  /\ pc = "exit"
  /\ args.hogwild /\ args.set_tolerance /\ args.max_its = 1
  /\ Len(args.ifnames) = 3
  /\ out.reported

=============================================================================
